---- MODULE Spec2Model ----
(***************************************************************************)
(* Explicit free-list allocator of src/mm.c, modelled on a word-addressed  *)
(* heap.  The heap is the sequence mem: mem[i] is the 8-byte word at       *)
(* address HEAP_LO + WORD_SIZE * (i - 1), HEAP_LO being the first byte of  *)
(* memlib's arena (mem_heap_lo), and address 0 is NULL.  Boundary tags,    *)
(* free-list links and payload data all live in mem, as in the C program.  *)
(***************************************************************************)
EXTENDS Integers, Sequences, FiniteSets, TLC

\* ---------------------------------------------------------------- constants
WORD_SIZE == 8
TAGS_SIZE == 16
MINBLOCKSIZE == 32
chunksize == 1024
NULL == 0
FAIL == 0 - 1
\* where memlib puts its arena: a page boundary above every block size, so
\* that no size is an address of the arena and no address of it is a size
HEAP_LO == 131072
\* addresses below it (NULL and the boundary tags read as pointers among them)
\* are never mapped
PAGE == 4096

\* ------------------------------------------------------------------- bounds
\* bytes the growth primitive grants before it fails (memlib's MAX_HEAP, scaled)
MaxHeap == 2200
\* public calls (malloc / free / realloc) in one run
MaxCalls == 4
\* payload pointers the client holds at once
MaxLive == 3

\* public calls in one run of the few-sizes client and of the malloc/free client
MaxDeepCalls == 7
MaxMFCalls == 6

\* request sizes the client draws from
DeepMallocSizes == {32}
DeepReallocSizes == {60, 2000}
MallocSizes == {0 - 1, 32, 1000}
ReallocSizes == {0, 60, 1100, 2000}

\* public calls in one run of the client of the spec's scenarios A, B and D,
\* and the sizes it asks for
MaxScenCalls == 5
ScenMallocSizes == {8, 16, 100, 180, 1100}
ScenReallocSizes == {20, 250}

VARIABLES
  mem,         \* the committed heap, one entry per word
  flist_first, \* anchor of the free list (NULL when empty)
  prologue,    \* _prologue
  epilogue,    \* _epilogue
  status,      \* "uninit" (no heap: before mm_init or after a failed one) | "ok" |
               \* "abort" (assert / exit) | "fault" (invalid access) | "hang"
  live,        \* client's pointers: payload pointer |-> bytes it asked for
  returned,    \* every payload pointer ever returned
  ncalls,      \* public calls made so far
  last,        \* what the last public call was and returned
  tainted      \* some mm_realloc has returned NULL after merging a neighbour

vars == <<mem, flist_first, prologue, epilogue, status, live, returned, ncalls, last,
          tainted>>

\* ------------------------------------------------------ memory (memlib view)
Granted(m) == WORD_SIZE * Len(m)
mem_heap_lo == HEAP_LO
mem_heap_hi(m) == HEAP_LO + Granted(m) - 1
\* mem[Idx(a)] is the word at the aligned address a, AddrOf(i) the address of mem[i]
Idx(a) == ((a - HEAP_LO) \div WORD_SIZE) + 1
AddrOf(i) == HEAP_LO + WORD_SIZE * (i - 1)
InHeap(m, a) == a % WORD_SIZE = 0 /\ a >= HEAP_LO /\ Idx(a) <= Len(m)
\* memlib keeps the heap in one arena of MaxHeap bytes; the bytes of the arena
\* past the break have never been written and read as zero
ArenaEnd == HEAP_LO + MaxHeap
\* the word at the aligned address w of the arena
Word(m, w) == IF w >= HEAP_LO /\ Idx(w) <= Len(m) THEN m[Idx(w)] ELSE 0
\* a value too large to be an address or a size of the arena; word values at or
\* above it are not told apart
Far == 1073741824
Pow256(k) == IF k = 1 THEN 256 ELSE IF k = 2 THEN 65536 ELSE 16777216
\* an 8-byte little-endian read at an address k bytes (0 < k < 8) past a word
\* boundary takes the upper 8 - k bytes of the word lo below as its low bytes
\* and the lower k bytes of the word hi above as its high bytes; the words of
\* the heap are below 2^31
LowPart(lo, k) == IF k >= 4 THEN 0 ELSE lo \div Pow256(k)
HighPart(hi, k) ==
  IF k <= 3 THEN (IF hi % Pow256(k) = 0 THEN 0 ELSE Far)
  ELSE IF hi = 0 THEN 0
  ELSE IF k = 4 THEN Far
  ELSE IF hi >= Far \div Pow256(8 - k) THEN Far
  ELSE hi * Pow256(8 - k)
RdUnaligned(m, a, k) ==
  LowPart(Word(m, a - k), k) + HighPart(Word(m, a - k + WORD_SIZE), k)
Rd(m, a) ==
  IF InHeap(m, a) THEN m[Idx(a)]
  ELSE IF a < HEAP_LO \/ a % WORD_SIZE = 0 THEN 0
  ELSE RdUnaligned(m, a, a % WORD_SIZE)
Wr(m, a, v) == IF InHeap(m, a) THEN [m EXCEPT ![Idx(a)] = v] ELSE m
Zeros(n) == [i \in 1..n |-> 0]

\* align without the WORD_SIZE - 1 added before the mask: rounds down
align_down(size) == (size \div WORD_SIZE) * WORD_SIZE
\* rounds up to the nearest multiple of WORD_SIZE
align(size) == ((size + (WORD_SIZE - 1)) \div WORD_SIZE) * WORD_SIZE
Max(a, b) == IF a > b THEN a ELSE b
\* the test (int) size < 0 of lines 73, 122 and 195: bit 31 of the size_t
\* value, a size being written in two's complement, so that (size_t) -1 is -1
\* and a size from 2^31 up to 2^32 - 1 is negative as an int
IntNegative(size) == ((size \div 65536) \div 32768) % 2 = 1

\* ------------------------------------------------- block layout (mminline.h)
\* A heap value h is [mem, flist, epi, grew, gfail, st, ret, path]: the memory,
\* the anchor, the Epilogue address, the number of growth-primitive calls made
\* by the running public call and how many of them failed, "ok" / "abort" /
\* "fault" / "hang", the value the running function returns, and the branch
\* mm_realloc took (with whether it merged the next and the previous block).
\* The readers take a memory, the writers take a heap value and give the next.
block_allocated(m, b) == Rd(m, b) % 2
block_size(m, b) == Rd(m, b) - (Rd(m, b) % 2)
block_end_tag(m, b) == b + block_size(m, b) - WORD_SIZE
block_end_allocated(m, b) == Rd(m, block_end_tag(m, b)) % 2
block_end_size(m, b) == Rd(m, block_end_tag(m, b)) - (Rd(m, block_end_tag(m, b)) % 2)
block_set_size(h, b, size) ==
  LET v  == size + block_allocated(h.mem, b)
      m1 == Wr(h.mem, b, v)
  IN  [h EXCEPT !.mem = Wr(m1, block_end_tag(m1, b), v)]
\* the tag word at t with its allocated bit set to a
tag_set_allocated(m, t, a) == Wr(m, t, (Rd(m, t) - (Rd(m, t) % 2)) + a)
block_set_allocated(h, b, a) ==
  LET m1 == tag_set_allocated(h.mem, b, a)
  IN  [h EXCEPT !.mem = tag_set_allocated(m1, block_end_tag(m1, b), a)]
block_set_size_and_allocated(h, b, size, a) ==
  block_set_allocated(block_set_size(h, b, size), b, a)
block_prev_size(m, b) == Rd(m, b - WORD_SIZE) - (Rd(m, b - WORD_SIZE) % 2)
block_prev(m, b) == b - block_prev_size(m, b)
block_next(m, b) == b + block_size(m, b)
payload_to_block(p) == p - WORD_SIZE
payload(b) == b + WORD_SIZE
block_next_free(m, b) == Rd(m, b + WORD_SIZE)
block_prev_free(m, b) == Rd(m, b + 2 * WORD_SIZE)
block_set_next_free(h, b, n) == [h EXCEPT !.mem = Wr(h.mem, b + WORD_SIZE, n)]
block_set_prev_free(h, b, p) == [h EXCEPT !.mem = Wr(h.mem, b + 2 * WORD_SIZE, p)]

\* ------------------------------------------------------ free list (mminline.h)
insert_free_block(h, fb) ==
  IF h.flist = NULL
  THEN [block_set_prev_free(block_set_next_free(h, fb, fb), fb, fb) EXCEPT !.flist = fb]
  ELSE LET lastb == block_prev_free(h.mem, h.flist)
           h1 == block_set_next_free(h, fb, h.flist)
           h2 == block_set_prev_free(h1, fb, lastb)
           h3 == block_set_next_free(h2, lastb, fb)
           h4 == block_set_prev_free(h3, h.flist, fb)
       IN  [h4 EXCEPT !.flist = fb]

pull_free_block(h, fb) ==
  IF block_next_free(h.mem, fb) = fb
  THEN [h EXCEPT !.flist = NULL]
  ELSE LET n  == block_next_free(h.mem, fb)
           p  == block_prev_free(h.mem, fb)
           h1 == block_set_next_free(h, p, n)
           h2 == block_set_prev_free(h1, n, p)
       IN  [h2 EXCEPT !.flist = IF h.flist = fb THEN n ELSE h.flist]

\* ----------------------------------------------------------- allocator core
\* mem_sbrk: grants incr more bytes right after the committed heap, or fails
mem_sbrk(h, incr) ==
  IF Granted(h.mem) + incr > MaxHeap
  THEN [h EXCEPT !.grew = @ + 1, !.gfail = @ + 1, !.ret = FAIL]
  ELSE [h EXCEPT !.grew = @ + 1, !.ret = HEAP_LO + Granted(h.mem),
                 !.mem = h.mem \o Zeros(incr \div WORD_SIZE)]

\* block_set_size(b, block_size(b) + block_size(other)) (lines 35 and 40)
grow_block(h, b, other) ==
  block_set_size(h, b, block_size(h.mem, b) + block_size(h.mem, other))
\* block_set_size_and_allocated(b, block_size(b) + block_size(other), 1)
\* (lines 233 and 246)
grow_block_allocated(h, b, other) ==
  block_set_size_and_allocated(h, b, block_size(h.mem, b) + block_size(h.mem, other), 1)

\* lines 33-36 of mm_coalesce
coalesce_next(h, block, next) ==
  IF block_allocated(h.mem, next) = 0
  THEN grow_block(pull_free_block(h, next), block, next)
  ELSE h
\* lines 38-45 of mm_coalesce
coalesce_prev(h, block, prev) ==
  IF block_allocated(h.mem, prev) = 0
  THEN insert_free_block(grow_block(pull_free_block(h, prev), prev, block), prev)
  ELSE insert_free_block(h, block)
mm_coalesce(h, block) ==
  LET next == block_next(h.mem, block)
      prev == block_prev(h.mem, block)
  IN  coalesce_prev(coalesce_next(pull_free_block(h, block), block, next), block, prev)

\* lines 60-62 of mm_break: the remainder after the shrunk block becomes free
break_rest(h, block, rest) ==
  LET new_free_block == block_next(h.mem, block)
  IN  insert_free_block(block_set_size_and_allocated(h, new_free_block, rest, 0),
                        new_free_block)
\* mm_break with the remainder located before the block is shrunk (line 60
\* ahead of line 59): the "remainder" is then the block after the original one
mm_break_stale_next(h, block, size) ==
  LET block_size_init == block_size(h.mem, block)
      new_free_block == block_next(h.mem, block)
  IN  insert_free_block(
        block_set_size_and_allocated(
          block_set_size_and_allocated(pull_free_block(h, block), block, size, 1),
          new_free_block, block_size_init - size, 0),
        new_free_block)

mm_break(h, block, size) ==
  LET block_size_init == block_size(h.mem, block)
  IN  break_rest(block_set_size_and_allocated(pull_free_block(h, block), block, size, 1),
                 block, block_size_init - size)

\* lines 89-91 of mm_extend_heap: the Epilogue moves to right after ext
move_epilogue(h, ext) ==
  LET epi == block_next(h.mem, ext)
  IN  [block_set_size_and_allocated(h, epi, TAGS_SIZE, 1) EXCEPT !.epi = epi, !.ret = ext]
\* lines 80-91 with the new block's tags written before the result of mem_sbrk
\* is tested (lines 85-86 ahead of line 80)
extend_granted_early_tags(g, size) ==
  IF g.ret = FAIL
  THEN block_set_size_and_allocated(g, g.epi, size, 0)
  ELSE move_epilogue(insert_free_block(block_set_size_and_allocated(g, g.epi, size, 0),
                                       g.epi), g.epi)
\* lines 80-91 of mm_extend_heap, g the heap after mem_sbrk(size)
extend_granted(g, size) ==
  IF g.ret = FAIL THEN g
  ELSE move_epilogue(insert_free_block(block_set_size_and_allocated(g, g.epi, size, 0),
                                       g.epi), g.epi)
mm_extend_heap(h, size0) ==
  LET size == align(IF size0 < MINBLOCKSIZE THEN MINBLOCKSIZE ELSE size0)
  IN  IF IntNegative(size0) THEN [h EXCEPT !.st = "abort", !.ret = FAIL]
      ELSE extend_granted(mem_sbrk(h, size), size)

\* the loop of lines 145-155 has no bound of its own.  It follows next-free
\* links from first through a heap it does not change before the extension,
\* so it ends unless it meets some block twice before it meets first again:
\* list_blocks counts the blocks it can meet before either happens, and
\* LoopFuel tests (one per block, one after the extension, one to spare) are
\* enough for every search that ends
RECURSIVE list_blocks(_, _, _, _)
list_blocks(m, curr, first, seen) ==
  IF curr \in seen THEN 0
  ELSE IF block_next_free(m, curr) = first THEN 1
  ELSE 1 + list_blocks(m, block_next_free(m, curr), first, seen \cup {curr})
LoopFuel(m, first) == list_blocks(m, first, first, {}) + 2
\* the while loop of mm_malloc (lines 145-155), one call of first_fit per test
\* of its condition; after_extend is the loop after line 150, e the heap that
\* mm_extend_heap left
RECURSIVE first_fit(_, _, _, _, _, _)
RECURSIVE after_extend(_, _, _, _, _)
first_fit(h, curr, first, block_size_req, mx, fuel) ==
  IF fuel = 0 THEN [h EXCEPT !.st = "hang", !.ret = FAIL]
  ELSE IF ~(block_size(h.mem, curr) < block_size_req) THEN [h EXCEPT !.ret = curr]
  ELSE LET nx == block_next_free(h.mem, curr)
       IN  IF nx = first
           THEN after_extend(mm_extend_heap(h, mx), first, block_size_req, mx, fuel - 1)
           ELSE first_fit(h, nx, first, block_size_req, mx, fuel - 1)
\* the loop after an extension whose result is not assigned to curr (line 150
\* reading mm_extend_heap(max) == (void*) -1): curr is still first
after_extend_keeps_curr(e, first, block_size_req, mx, fuel) ==
  IF e.ret = FAIL THEN e
  ELSE first_fit(e, first, first, block_size_req, mx, fuel)
after_extend(e, first, block_size_req, mx, fuel) ==
  IF e.ret = FAIL THEN e
  ELSE first_fit(e, e.ret, first, block_size_req, mx, fuel)

\* placement that splits whenever a minimum block is left over (line 163
\* reading >= MINBLOCKSIZE)
place_split_small(h, curr, block_size_req) ==
  IF block_size(h.mem, curr) - block_size_req >= MINBLOCKSIZE
  THEN [mm_break(h, curr, block_size_req) EXCEPT !.ret = payload(curr)]
  ELSE [block_set_allocated(pull_free_block(h, curr), curr, 1)
          EXCEPT !.ret = payload(curr)]
\* lines 163-171: split the chosen block or take it whole
place(h, curr, block_size_req) ==
  IF block_size(h.mem, curr) - block_size_req >= 8 * MINBLOCKSIZE
  THEN [mm_break(h, curr, block_size_req) EXCEPT !.ret = payload(curr)]
  ELSE [block_set_allocated(pull_free_block(h, curr), curr, 1)
          EXCEPT !.ret = payload(curr)]
\* lines 138-141, 150-153 and 163-171, f the heap after the search
found(f, block_size_req) ==
  IF f.ret = FAIL THEN [f EXCEPT !.ret = NULL]
  ELSE place(f, f.ret, block_size_req)

\* mm_malloc with the search started at the anchor's successor (line 132
\* reading block_next_free(flist_first))
mm_malloc_from_second(h, size0) ==
  IF IntNegative(size0) THEN [h EXCEPT !.ret = NULL]
  ELSE LET size == align(IF size0 < MINBLOCKSIZE THEN MINBLOCKSIZE ELSE size0)
           block_size_req == size + TAGS_SIZE
           mx == Max(block_size_req, chunksize)
       IN  found(IF h.flist = NULL
                 THEN mm_extend_heap(h, mx)
                 ELSE first_fit(h, block_next_free(h.mem, h.flist),
                                block_next_free(h.mem, h.flist), block_size_req, mx,
                                LoopFuel(h.mem, block_next_free(h.mem, h.flist))),
                 block_size_req)

\* mm_malloc that always extends by the chunk size (line 135 reading
\* max = _chunksize)
mm_malloc_chunk_only(h, size0) ==
  IF IntNegative(size0) THEN [h EXCEPT !.ret = NULL]
  ELSE LET first == h.flist
           size == align(IF size0 < MINBLOCKSIZE THEN MINBLOCKSIZE ELSE size0)
           block_size_req == size + TAGS_SIZE
           mx == chunksize
       IN  found(IF h.flist = NULL
                 THEN mm_extend_heap(h, mx)
                 ELSE first_fit(h, h.flist, first, block_size_req, mx,
                                LoopFuel(h.mem, first)),
                 block_size_req)

mm_malloc(h, size0) ==
  IF IntNegative(size0) THEN [h EXCEPT !.ret = NULL]
  ELSE LET first == h.flist
           size == align(IF size0 < MINBLOCKSIZE THEN MINBLOCKSIZE ELSE size0)
           block_size_req == size + TAGS_SIZE
           mx == Max(block_size_req, chunksize)
       IN  found(IF h.flist = NULL
                 THEN mm_extend_heap(h, mx)
                 ELSE first_fit(h, h.flist, first, block_size_req, mx,
                                LoopFuel(h.mem, first)),
                 block_size_req)

mm_free(h, ptr) ==
  LET block == payload_to_block(ptr)
  IN  IF block_allocated(h.mem, block) = 0
      THEN [h EXCEPT !.st = "abort", !.ret = NULL]
      ELSE [mm_coalesce(insert_free_block(block_set_allocated(h, block, 0), block), block)
              EXCEPT !.ret = NULL]

\* memmove / memcpy of n bytes from src to dst (read from the memory as it was)
copy_bytes(m, dst, src, n) ==
  [i \in DOMAIN m |->
     IF AddrOf(i) >= dst /\ AddrOf(i) < dst + n
     THEN Rd(m, src + (AddrOf(i) - dst))
     ELSE m[i]]

\* lines 263-268, hm the heap after mm_malloc(size), ptr as line 254 left it
realloc_move(hm, ptr, cpy_size, mergedNext, mergedPrev) ==
  IF hm.ret = NULL
  THEN [hm EXCEPT !.path = <<"failed", mergedNext, mergedPrev>>]
  ELSE LET new_block == payload_to_block(hm.ret)
       IN  [mm_free([hm EXCEPT !.mem = copy_bytes(hm.mem, payload(new_block), ptr,
                                                  cpy_size)], ptr)
              EXCEPT !.ret = payload(new_block),
                     !.path = <<"fallback", mergedNext, mergedPrev>>]
\* lines 258-268: a new block as a last resort
realloc_fallback(h, ptr, size, cpy_size, mergedNext, mergedPrev) ==
  realloc_move(mm_malloc(h, size), ptr, cpy_size, mergedNext, mergedPrev)
\* lines 247-255, h the heap after the merge with prev
realloc_after_prev(h, ptr, prev, size, cpy_size, mergedNext) ==
  IF size <= block_size(h.mem, prev)
  THEN [h EXCEPT !.mem = copy_bytes(h.mem, payload(prev), ptr, cpy_size),
                 !.ret = payload(prev), !.path = <<"prev", mergedNext, TRUE>>]
  ELSE realloc_fallback(h, payload(prev), size, cpy_size, mergedNext, TRUE)
\* lines 234-256, original_size the block's size as line 218 or 234 read it
realloc_try_prev(h, ptr, size, cpy_size, original_size, mergedNext) ==
  LET block == payload_to_block(ptr)
      prev == block_prev(h.mem, block)
  IN  IF mergedNext /\ size <= original_size
      THEN [h EXCEPT !.ret = payload(block), !.path = <<"next", TRUE, FALSE>>]
      ELSE IF original_size < size /\ block_allocated(h.mem, prev) = 0
      THEN realloc_after_prev(grow_block_allocated(pull_free_block(h, prev), prev, block),
                              ptr, prev, size, cpy_size, mergedNext)
      ELSE realloc_fallback(h, ptr, size, cpy_size, mergedNext, FALSE)
\* line 234, h the heap after the merge with next
realloc_after_next(h, ptr, size, cpy_size) ==
  realloc_try_prev(h, ptr, size, cpy_size, block_size(h.mem, payload_to_block(ptr)), TRUE)
\* lines 215-268 with the free next block merged before the size is tested
\* (lines 231-234 ahead of line 221)
realloc_resize_eager(h, ptr, size) ==
  LET block == payload_to_block(ptr)
      original_size == block_size(h.mem, block)
      next == block_next(h.mem, block)
      cpy_size == original_size - TAGS_SIZE
  IN  IF block_allocated(h.mem, next) = 0
      THEN realloc_after_next(grow_block_allocated(pull_free_block(h, next), block, next),
                              ptr, size, cpy_size)
      ELSE IF original_size >= size
      THEN [h EXCEPT !.ret = payload(block), !.path = <<"fits", FALSE, FALSE>>]
      ELSE realloc_try_prev(h, ptr, size, cpy_size, original_size, FALSE)
\* lines 215-268: ptr is not NULL, size is the aligned request plus TAGS_SIZE
realloc_resize(h, ptr, size) ==
  LET block == payload_to_block(ptr)
      original_size == block_size(h.mem, block)
      next == block_next(h.mem, block)
      cpy_size == original_size - TAGS_SIZE
  IN  IF original_size >= size
      THEN [h EXCEPT !.ret = payload(block), !.path = <<"fits", FALSE, FALSE>>]
      ELSE IF block_allocated(h.mem, next) = 0
      THEN realloc_after_next(grow_block_allocated(pull_free_block(h, next), block, next),
                              ptr, size, cpy_size)
      ELSE realloc_try_prev(h, ptr, size, cpy_size, original_size, FALSE)

\* lines 204-222 for ptr = NULL, hm the heap after mm_malloc(size); wild is
\* what the read of the word at NULL - WORD_SIZE (line 218) does: "trap"
\* (invalid access) or "large" (a value >= size is read)
realloc_null(hm, wild) ==
  IF hm.ret = NULL
  THEN [hm EXCEPT !.path = <<"null_failed", FALSE, FALSE>>]
  ELSE IF wild = "trap"
  THEN [hm EXCEPT !.st = "fault", !.ret = NULL, !.path = <<"null_deref", FALSE, FALSE>>]
  ELSE [hm EXCEPT !.ret = payload(payload_to_block(NULL)),
                  !.path = <<"null_deref", FALSE, FALSE>>]

\* mm_realloc with the test of line 209 after the resize (line 209 moved
\* behind line 222): a request of size 0 fits every block
mm_realloc_zero_fits(h, ptr, size, wild) ==
  IF IntNegative(size) THEN [h EXCEPT !.ret = NULL, !.path = <<"negative", FALSE, FALSE>>]
  ELSE IF ptr = NULL /\ size = 0
  THEN [h EXCEPT !.ret = NULL, !.path = <<"null_zero", FALSE, FALSE>>]
  ELSE IF ptr = NULL
  THEN realloc_null(mm_malloc(h, size), wild)
  ELSE IF size = 0
  THEN [realloc_resize(h, ptr, align(size) + TAGS_SIZE) EXCEPT !.ret = NULL]
  ELSE realloc_resize(h, ptr, align(size) + TAGS_SIZE)

mm_realloc(h, ptr, size, wild) ==
  IF IntNegative(size) THEN [h EXCEPT !.ret = NULL, !.path = <<"negative", FALSE, FALSE>>]
  ELSE IF ptr = NULL /\ size = 0
  THEN [h EXCEPT !.ret = NULL, !.path = <<"null_zero", FALSE, FALSE>>]
  ELSE IF ptr = NULL
  THEN realloc_null(mm_malloc(h, size), wild)
  ELSE IF size = 0
  THEN [mm_free(h, ptr) EXCEPT !.ret = NULL, !.path = <<"free", FALSE, FALSE>>]
  ELSE realloc_resize(h, ptr, align(size) + TAGS_SIZE)

\* ------------------------------------------------------------- the program
NoPath == <<"none", FALSE, FALSE>>
Heap == [mem |-> mem, flist |-> flist_first, epi |-> epilogue, grew |-> 0,
         gfail |-> 0, st |-> "ok", ret |-> NULL, path |-> NoPath]
Install(h) ==
  /\ mem' = h.mem
  /\ flist_first' = h.flist
  /\ epilogue' = h.epi
  /\ status' = h.st
  /\ UNCHANGED prologue
Called(op, ptr, size, h) ==
  /\ ncalls' = ncalls + 1
  /\ last' = [op |-> op, ptr |-> ptr, size |-> size, ret |-> h.ret,
              grew |-> h.grew, gfail |-> h.gfail, path |-> h.path]
Live == DOMAIN live
Forget(p) == [q \in Live \ {p} |-> live[q]]
Hold(f, p, size) == [q \in DOMAIN f \cup {p} |-> IF q = p THEN size ELSE f[q]]
\* the data the client stores in the word at address a
Data(a) == 100000 + a

\* --------------------------------------------------------- reading the heap
\* the blocks met from b by advancing by the header's size, up to (not
\* including) epi; FAIL marks a walk that leaves the heap or misses epi
RECURSIVE Walk(_, _, _, _)
Walk(m, b, epi, fuel) ==
  IF b = epi THEN << >>
  ELSE IF fuel = 0 \/ ~InHeap(m, b) \/ b > epi \/ block_size(m, b) = 0 THEN <<FAIL>>
  ELSE <<b>> \o Walk(m, block_next(m, b), epi, fuel - 1)
Range(f) == {f[i] : i \in DOMAIN f}
PhysWalk == Walk(mem, prologue, epilogue, Len(mem))
\* the blocks strictly between Prologue and Epilogue
Inner == Range(PhysWalk) \ {prologue, FAIL}
FreeBlocks == {b \in Inner : block_allocated(mem, b) = 0}
\* the blocks met from the anchor by following next-free links
RECURSIVE ListWalk(_, _, _, _)
ListWalk(m, b, first, fuel) ==
  IF fuel = 0 \/ ~InHeap(m, b) THEN <<FAIL>>
  ELSE IF block_next_free(m, b) = first THEN <<b>>
  ELSE <<b>> \o ListWalk(m, block_next_free(m, b), first, fuel - 1)
FreeList == IF flist_first = NULL THEN << >>
            ELSE ListWalk(mem, flist_first, flist_first, Len(mem))
RECURSIVE SumSizes(_, _)
SumSizes(m, bs) ==
  IF bs = << >> THEN 0 ELSE block_size(m, Head(bs)) + SumSizes(m, Tail(bs))
usable(m, p) == block_size(m, payload_to_block(p)) - TAGS_SIZE
Between == status = "ok"

Init ==
  /\ mem = << >>
  /\ flist_first = NULL
  /\ prologue = NULL
  /\ epilogue = NULL
  /\ status = "uninit"
  /\ live = << >>
  /\ returned = {}
  /\ ncalls = 0
  /\ last = [op |-> "none", ptr |-> NULL, size |-> 0, ret |-> NULL, grew |-> 0,
             gfail |-> 0, path |-> NoPath]
  /\ tainted = FALSE

\* line 110 of mm_init: the Epilogue right after the Prologue
init_epilogue(h, prol) ==
  block_set_size_and_allocated(h, block_next(h.mem, prol), TAGS_SIZE, 1)
\* mm_init (lines 99-112) may be called again on an initialised allocator: it
\* empties the free list and puts a new Prologue and Epilogue at the break.
\* The client that initialises again gives up the pointers it held.  When the
\* growth primitive fails, _prologue has been assigned (block_t*) -1, -1 is
\* returned and the allocator is left without a heap to serve from ("uninit").
\* The first initialisation is not counted as a call of the run.
mm_init(maxc) ==
  /\ status \in {"uninit", "ok"}
  /\ status = "ok" => ncalls < maxc
  /\ \E g \in {mem_sbrk([Heap EXCEPT !.flist = NULL], MINBLOCKSIZE)} :
       /\ IF g.ret = FAIL
          THEN /\ status' = "uninit"
               /\ prologue' = FAIL
               /\ flist_first' = NULL
               /\ UNCHANGED <<mem, epilogue>>
          ELSE \E h \in {init_epilogue(block_set_size_and_allocated(g, g.ret, TAGS_SIZE, 1),
                                        g.ret)} :
                 /\ mem' = h.mem
                 /\ prologue' = g.ret
                 /\ epilogue' = block_next(h.mem, g.ret)
                 /\ flist_first' = NULL
                 /\ status' = "ok"
       /\ last' = [op |-> "init", ptr |-> NULL, size |-> 0,
                   ret |-> IF g.ret = FAIL THEN FAIL ELSE 0,
                   grew |-> g.grew, gfail |-> g.gfail, path |-> NoPath]
  /\ ncalls' = IF status = "uninit" THEN ncalls ELSE ncalls + 1
  /\ live' = << >>
  /\ UNCHANGED <<returned, tainted>>

Malloc(size, maxc) ==
  /\ status = "ok"
  /\ ncalls < maxc
  /\ Cardinality(Live) < MaxLive
  /\ \E h \in {mm_malloc(Heap, size)} :
         /\ Install(h)
         /\ Called("malloc", NULL, size, h)
         /\ live' = IF h.ret = NULL THEN live ELSE Hold(live, h.ret, size)
         /\ returned' = IF h.ret = NULL THEN returned ELSE returned \cup {h.ret}
         /\ UNCHANGED tainted

Free(p, maxc) ==
  /\ status = "ok"
  /\ ncalls < maxc
  /\ p \in Live
  /\ \E h \in {mm_free(Heap, p)} :
         /\ Install(h)
         /\ Called("free", p, 0, h)
         /\ live' = Forget(p)
         /\ UNCHANGED <<returned, tainted>>

Realloc(p, size, wild, maxc) ==
  /\ status = "ok"
  /\ ncalls < maxc
  /\ p \in Live \cup {NULL}
  /\ p = NULL => Cardinality(Live) < MaxLive
  /\ p # NULL => wild = "trap"
  /\ \E h \in {mm_realloc(Heap, p, size, wild)} :
         /\ Install(h)
         /\ Called("realloc", p, size, h)
         /\ live' = IF h.ret # NULL THEN Hold(Forget(p), h.ret, size)
                    ELSE IF p # NULL /\ size = 0 THEN Forget(p)
                    ELSE live
         /\ returned' = IF h.ret = NULL THEN returned ELSE returned \cup {h.ret}
         /\ tainted' = (tainted \/ (h.path[1] = "failed" /\ (h.path[2] \/ h.path[3])))

\* the client stores data in the bytes it asked for, right after it got them
UserWrite(p) ==
  /\ status = "ok"
  /\ p \in Live
  /\ last.op \in {"malloc", "realloc"} /\ last.ret = p
  /\ LET m == [i \in DOMAIN mem |->
                 IF AddrOf(i) >= p /\ AddrOf(i) < p + align(live[p])
                 THEN Data(AddrOf(i)) ELSE mem[i]]
     IN  /\ m # mem
         /\ mem' = m
  /\ last' = [op |-> "write", ptr |-> p, size |-> live[p], ret |-> NULL, grew |-> 0,
              gfail |-> 0, path |-> NoPath]
  /\ UNCHANGED <<flist_first, prologue, epilogue, status, live, returned, ncalls, tainted>>

\* a released or superseded pointer is passed to mm_free (a contract violation)
FreeStale(p) ==
  /\ status = "ok"
  /\ ncalls <= MaxDeepCalls
  /\ p \in returned \ Live
  /\ ~(payload_to_block(p) \in Inner /\ block_allocated(mem, payload_to_block(p)) = 1)
  /\ \E h \in {mm_free(Heap, p)} :
         /\ Install(h)
         /\ last' = [op |-> "free_stale", ptr |-> p, size |-> 0, ret |-> h.ret,
                     grew |-> h.grew, gfail |-> h.gfail, path |-> h.path]
         /\ ncalls' = MaxDeepCalls + 1
         /\ UNCHANGED <<live, returned, tainted>>

WildReads == {"trap", "large"}

Next ==
  \/ mm_init(MaxCalls)
  \/ \E size \in MallocSizes : Malloc(size, MaxCalls)
  \/ \E p \in Live : Free(p, MaxCalls)
  \/ \E p \in Live \cup {NULL}, size \in ReallocSizes, wild \in WildReads :
       Realloc(p, size, wild, MaxCalls)
  \/ \E p \in Live : UserWrite(p)

Spec == Init /\ [][Next]_vars

\* longer runs of a client that asks for few sizes
NextDeep ==
  \/ mm_init(MaxDeepCalls)
  \/ \E size \in DeepMallocSizes : Malloc(size, MaxDeepCalls)
  \/ \E p \in Live : Free(p, MaxDeepCalls)
  \/ \E p \in Live, size \in DeepReallocSizes : Realloc(p, size, "trap", MaxDeepCalls)

SpecDeep == Init /\ [][NextDeep]_vars

\* a client that only allocates, releases and stores data
NextMF ==
  \/ mm_init(MaxMFCalls)
  \/ \E size \in MallocSizes : Malloc(size, MaxMFCalls)
  \/ \E p \in Live : Free(p, MaxMFCalls)
  \/ \E p \in Live : UserWrite(p)

SpecMF == Init /\ [][NextMF]_vars

\* a client that ends its run by releasing a pointer it no longer holds
NextMisuse ==
  \/ NextDeep
  \/ \E p \in returned \ Live : FreeStale(p)

SpecMisuse == Init /\ [][NextMisuse]_vars

\* the client of the spec's scenarios: small, unaligned and large requests
NextScen ==
  \/ mm_init(MaxScenCalls)
  \/ \E size \in ScenMallocSizes : Malloc(size, MaxScenCalls)
  \/ \E p \in Live : Free(p, MaxScenCalls)
  \/ \E p \in Live, size \in ScenReallocSizes : Realloc(p, size, "trap", MaxScenCalls)

SpecScen == Init /\ [][NextScen]_vars

\* ------------------------------------------------------------------ claims
FreeListSound ==
  /\ FAIL \notin Range(PhysWalk)
  /\ FAIL \notin Range(FreeList)
  /\ \A i, j \in DOMAIN FreeList : i # j => FreeList[i] # FreeList[j]
  /\ \A b \in Range(FreeList) :
       /\ block_prev_free(mem, block_next_free(mem, b)) = b
       /\ block_next_free(mem, block_prev_free(mem, b)) = b
  /\ Range(FreeList) = FreeBlocks
  /\ (flist_first = NULL) <=> (FreeBlocks = {})

NoAdjacentFree ==
  /\ FAIL \notin Range(PhysWalk)
  /\ \A i \in 1..(Len(PhysWalk) - 1) :
       block_allocated(mem, PhysWalk[i]) = 1 \/ block_allocated(mem, PhysWalk[i + 1]) = 1
  /\ \A b \in Range(FreeList) \ {FAIL} :
       /\ block_allocated(mem, block_next(mem, b)) = 1
       /\ block_allocated(mem, block_prev(mem, b)) = 1

Overlap(a, n, b, k) == a < b + k /\ b < a + n
NoAliasing ==
  /\ \A p, q \in Live : p # q => ~Overlap(p, usable(mem, p), q, usable(mem, q))
  /\ \A p \in Live :
       /\ \A b \in (FreeBlocks \cup Range(FreeList)) \ {FAIL} :
            ~Overlap(p, usable(mem, p), b, block_size(mem, b))
       /\ ~Overlap(p, usable(mem, p), prologue, TAGS_SIZE)
       /\ ~Overlap(p, usable(mem, p), epilogue, TAGS_SIZE)
       /\ p >= HEAP_LO /\ p + usable(mem, p) <= HEAP_LO + Granted(mem)

WellFormedTiling ==
  /\ prologue = mem_heap_lo
  /\ block_allocated(mem, prologue) = 1 /\ block_size(mem, prologue) = TAGS_SIZE
  /\ FAIL \notin Range(PhysWalk)
  /\ \A b \in Range(PhysWalk) :
       /\ InHeap(mem, b) /\ InHeap(mem, block_end_tag(mem, b))
       /\ block_size(mem, b) = block_end_size(mem, b)
       /\ block_allocated(mem, b) = block_end_allocated(mem, b)
  /\ block_allocated(mem, epilogue) = 1 /\ block_size(mem, epilogue) = TAGS_SIZE
  /\ block_end_size(mem, epilogue) = TAGS_SIZE /\ block_end_allocated(mem, epilogue) = 1
  /\ epilogue = mem_heap_hi(mem) - (TAGS_SIZE - 1)
  /\ SumSizes(mem, PhysWalk) + TAGS_SIZE = Granted(mem)

\* a public call (not a client store) has just returned
Returned(op) == ncalls' = ncalls + 1 /\ last'.op = op
\* the k-th word of the payload at p holds the same in m2 as in m1
SamePayload(m1, p, m2, q, n) ==
  \A k \in 0..((n \div WORD_SIZE) - 1) :
    Rd(m2, q + WORD_SIZE * k) = Rd(m1, p + WORD_SIZE * k)
HeapUnchanged ==
  /\ mem' = mem
  /\ flist_first' = flist_first
  /\ prologue' = prologue
  /\ epilogue' = epilogue

\* C1: between calls the free list reachable from flist_first is a circular
\* doubly-linked list holding exactly the free blocks between Prologue and
\* Epilogue, each once, and the anchor is NULL exactly when there is none.
C1_FreeListSound == Between => FreeListSound
\* the same on the runs in which no mm_realloc has failed after merging
C1_Untainted == (Between /\ ~tainted) => FreeListSound

\* C2: between calls no two physically adjacent blocks are both free.
C2_NoAdjacentFree == Between => NoAdjacentFree
C2_Untainted == (Between /\ ~tainted) => NoAdjacentFree

\* C3: the payload regions of the live allocations are pairwise disjoint and
\* disjoint from every free block and from the sentinels.
C3_NoAliasing == Between => NoAliasing
C3_Untainted == (Between /\ ~tainted) => NoAliasing

\* C4: when mm_realloc(ptr, size), ptr live and size > 0, returns q # NULL, the
\* first U bytes at q are the U bytes that were at ptr, U the usable payload
\* size of ptr's block before the call; in every branch.
C4_DataKept ==
  [][(Returned("realloc") /\ last'.ptr \in Live /\ last'.size > 0 /\ last'.ret # NULL)
       => SamePayload(mem, last'.ptr, mem', last'.ret, usable(mem, last'.ptr))]_vars

\* C5: mm_realloc(NULL, size) behaves as mm_malloc(size): same return value and
\* same heap for size > 0; NULL and an unchanged heap for size = 0.
C5_NullIsMalloc ==
  [][(Returned("realloc") /\ last'.ptr = NULL /\ last'.size >= 0)
       => IF last'.size = 0
          THEN last'.ret = NULL /\ HeapUnchanged /\ status' = "ok"
          ELSE \E m \in {mm_malloc(Heap, last'.size)} :
                 /\ last'.ret = m.ret
                 /\ mem' = m.mem
                 /\ flist_first' = m.flist
                 /\ epilogue' = m.epi
                 /\ status' = "ok"]_vars

\* C6: a call of mm_malloc or mm_free leaves the bytes of every payload that is
\* live before and after it unchanged.
C6_Frame ==
  [][(Returned("malloc") \/ Returned("free"))
       => \A p \in Live \cap DOMAIN live' :
            SamePayload(mem, p, mem', p, usable(mem, p))]_vars
\* the heap was extended, and a block split, while a payload held stored data
C6_Witness ==
  /\ last.op = "malloc" /\ last.grew = 1 /\ last.ret # NULL
  /\ block_allocated(mem, block_next(mem, payload_to_block(last.ret))) = 0
  /\ \E p \in Live \ {last.ret} : Rd(mem, p) = Data(p)

\* C7: between calls the heap is a well-formed tiling with mirrored tags from
\* the Prologue at the heap low bound to the Epilogue at the heap high bound,
\* and the block sizes sum to the bytes granted.
C7_WellFormed == Between => WellFormedTiling
\* the same while the allocator has been initialised once (a second mm_init
\* puts its Prologue at the break, above the heap low bound)
C7_Untainted == (Between /\ ~tainted /\ prologue = mem_heap_lo) => WellFormedTiling

\* C8: when mm_realloc(ptr, size), ptr live and size > 0, returns NULL because
\* the growth primitive failed, the heap is exactly as before the call.
C8_FailureAtomic ==
  [][(Returned("realloc") /\ last'.ptr \in Live /\ last'.size > 0
        /\ last'.ret = NULL /\ last'.gfail > 0)
       => HeapUnchanged /\ live' = live]_vars

\* C9: when the growth primitive fails during mm_malloc, mm_malloc returns
\* NULL, the primitive was called exactly once, and the heap is unchanged.
C9_MallocFailure ==
  [][(Returned("malloc") /\ last'.gfail > 0)
       => /\ last'.ret = NULL
          /\ last'.grew = 1
          /\ HeapUnchanged
          /\ status' = "ok"]_vars
\* mm_malloc searched a non-empty free list, tried to grow and failed
C9_Witness ==
  /\ last.op = "malloc" /\ last.gfail = 1 /\ last.ret = NULL
  /\ flist_first # NULL /\ Live # {}

\* C10: mm_free on a released or superseded pointer stops at the assertion
\* before it modifies any heap state.
C10_StaleFreeStops ==
  [][(last'.op = "free_stale" /\ ncalls' # ncalls)
       => status' = "abort" /\ HeapUnchanged]_vars

\* C11: a non-null pointer returned by mm_malloc(s) or mm_realloc(p, s), s a
\* valid size, designates a block whose usable payload size is at least s, a
\* multiple of WORD_SIZE and at least the minimum payload MINBLOCKSIZE.
C11_SizeContract ==
  [][((Returned("malloc") \/ Returned("realloc"))
        /\ ~IntNegative(last'.size) /\ last'.ret # NULL)
       => /\ usable(mem', last'.ret) >= last'.size
          /\ usable(mem', last'.ret) % WORD_SIZE = 0
          /\ usable(mem', last'.ret) >= MINBLOCKSIZE]_vars
\* an unaligned request below the minimum was served, and a resize moved a block
C11_Witness ==
  /\ last.op = "realloc" /\ last.ret # NULL /\ last.ret # last.ptr
  /\ last.size % WORD_SIZE # 0
  /\ \E p \in Live : live[p] < MINBLOCKSIZE

\* C12: for a live ptr and a nonzero s no larger than the usable payload size
\* of ptr's block, mm_realloc(ptr, s) returns ptr and changes nothing (tags,
\* neighbours, free list, heap bounds, payload bytes).
C12_FitsUnchanged ==
  [][(Returned("realloc") /\ last'.ptr \in Live
        /\ last'.size > 0 /\ last'.size <= usable(mem, last'.ptr))
       => /\ last'.ret = last'.ptr
          /\ HeapUnchanged
          /\ last'.grew = 0
          /\ status' = "ok"]_vars
\* a resize to less than the block holds was served in place although the
\* next block was free and the block could have been shrunk
C12_Witness ==
  /\ last.op = "realloc" /\ last.path[1] = "fits" /\ last.ret \in Live
  /\ block_allocated(mem, block_next(mem, payload_to_block(last.ret))) = 0
  /\ last.size + 8 * MINBLOCKSIZE <= usable(mem, last.ret)

\* the free block that holds address a, when a block of the free list does
CoveringFree(m, first, a) ==
  {b \in Range(IF first = NULL THEN << >> ELSE ListWalk(m, first, first, Len(m))) \ {FAIL} :
     b < a /\ a < b + block_size(m, b)}

\* C13: for a live p, mm_realloc(p, 0) returns NULL and leaves the heap in
\* the state mm_free(p) would produce: p's block is free, merged with its
\* free neighbours, and once in the free list.
C13_ZeroIsFree ==
  [][(Returned("realloc") /\ last'.ptr \in Live /\ last'.size = 0)
       => /\ last'.ret = NULL
          /\ \E f \in {mm_free(Heap, last'.ptr)} :
               /\ mem' = f.mem
               /\ flist_first' = f.flist
               /\ epilogue' = f.epi
               /\ status' = f.st
          /\ last'.ptr \notin DOMAIN live'
          /\ \E b \in CoveringFree(mem', flist_first', last'.ptr) :
               /\ CoveringFree(mem', flist_first', last'.ptr) = {b}
               /\ block_allocated(mem', b) = 0
               /\ block_allocated(mem', block_next(mem', b)) = 1
               /\ block_allocated(mem', block_prev(mem', b)) = 1]_vars
\* a resize to 0 released a block that had a free neighbour to merge with
C13_Witness ==
  /\ last.op = "realloc" /\ last.size = 0 /\ last.ptr # NULL /\ last.ret = NULL
  /\ status = "ok"
  /\ \E b \in CoveringFree(mem, flist_first, last.ptr) :
       block_size(mem, b) > usable(mem, last.ptr) + TAGS_SIZE

\* the block size mm_malloc needs for a request (lines 127-131)
required(size) == align(IF size < MINBLOCKSIZE THEN MINBLOCKSIZE ELSE size) + TAGS_SIZE

\* C14: after mm_free(p) whose block has no free physical neighbour, the next
\* mm_malloc(s) whose required block size is at most that block's size
\* returns p without calling the growth primitive, even when other blocks of
\* the free list would fit too.
C14_LastFreedFirst ==
  [][(last.op = "free" /\ Returned("malloc") /\ ~IntNegative(last'.size)
        /\ block_allocated(mem, payload_to_block(last.ptr)) = 0
        /\ block_allocated(mem, block_next(mem, payload_to_block(last.ptr))) = 1
        /\ block_allocated(mem, block_prev(mem, payload_to_block(last.ptr))) = 1
        /\ required(last'.size) <= block_size(mem, payload_to_block(last.ptr)))
       => /\ last'.ret = last.ptr
          /\ last'.grew = 0]_vars
\* scenario A: allocate(8) got the first block back, released after a second
\* allocate(16) that is still live, while a larger free block was in the list
C14_Witness ==
  /\ last.op = "malloc" /\ last.size = 8 /\ last.grew = 0
  /\ last.ret = payload(block_next(mem, prologue))
  /\ \E q \in Live : q > last.ret /\ live[q] = 16
  /\ \E b \in FreeBlocks : block_size(mem, b) >= required(8)
  /\ ncalls = 4

\* how often block b occurs in the free-list walk f
Occurrences(f, b) == Cardinality({i \in DOMAIN f : f[i] = b})
\* mm_free(p) has merged p's block with the free blocks next to it: one free
\* block from the lowest of them, as large as all of them, once in the list
MergedByFree(p) ==
  LET b  == payload_to_block(p)
      nx == block_next(mem, b)
      pv == block_prev(mem, b)
      nf == block_allocated(mem, nx) = 0
      pf == block_allocated(mem, pv) = 0
      start == IF pf THEN pv ELSE b
      total == block_size(mem, b) + (IF nf THEN block_size(mem, nx) ELSE 0)
                                  + (IF pf THEN block_size(mem, pv) ELSE 0)
  IN  /\ Rd(mem', start) = total
      /\ Rd(mem', start + total - WORD_SIZE) = total
      /\ Occurrences(FreeList', start) = 1
      /\ \A c \in Range(FreeList') \ {start} : ~Overlap(c, 1, start, total)
      /\ block_allocated(mem', start + total) = 1
      /\ block_allocated(mem', block_prev(mem', start)) = 1
\* the block before or after p's block is free and was once handed out
ReleasedNeighbour(p) ==
  \E q \in returned \ Live :
    /\ block_allocated(mem, payload_to_block(q)) = 0
    /\ \/ block_next(mem, payload_to_block(q)) = payload_to_block(p)
       \/ block_next(mem, payload_to_block(p)) = payload_to_block(q)

\* C15: releasing two physically adjacent allocated blocks, in either order,
\* leaves one free block that starts at the lower address, is as large as both
\* plus the free neighbours merged, and is once in the free list; a following
\* mm_malloc that this block can hold succeeds without growing the heap.
C15_AdjacentMerge ==
  [][/\ (Returned("free") /\ ReleasedNeighbour(last'.ptr)) => MergedByFree(last'.ptr)
     /\ (last.op = "free" /\ Returned("malloc") /\ ~IntNegative(last'.size)
          /\ \E b \in CoveringFree(mem, flist_first, last.ptr) :
                required(last'.size) <= block_size(mem, b))
         => (last'.ret # NULL /\ last'.grew = 0)]_vars
\* the same on the runs in which no mm_realloc has failed after merging
C15_Untainted ==
  [][~tainted =>
      /\ (Returned("free") /\ ReleasedNeighbour(last'.ptr)) => MergedByFree(last'.ptr)
      /\ (last.op = "free" /\ Returned("malloc") /\ ~IntNegative(last'.size)
           /\ \E b \in CoveringFree(mem, flist_first, last.ptr) :
                 required(last'.size) <= block_size(mem, b))
          => (last'.ret # NULL /\ last'.grew = 0)]_vars
\* scenario B: allocate(180) was served, without growth, from the block that
\* the release of two adjacent allocate(100) blocks left
C15_Witness ==
  /\ last.op = "malloc" /\ last.size = 180 /\ last.grew = 0 /\ last.ret # NULL
  /\ ncalls = 5
  /\ Cardinality(returned) = 2
  /\ \A q \in returned : q <= last.ret + required(100)

\* C16: mm_malloc calls the growth primitive at most once, and only when no
\* block of the free list has the required block size; when it grows, the
\* heap high bound advances by exactly max(required, chunk size), aligned.
C16_GrowthPolicy ==
  [][(Returned("malloc") /\ ~IntNegative(last'.size))
       => /\ last'.grew <= 1
          /\ last'.grew = 1 =>
                \A b \in Range(FreeList) \ {FAIL} :
                  block_size(mem, b) < required(last'.size)
          /\ (last'.grew = 1 /\ last'.gfail = 0) =>
                mem_heap_hi(mem') - mem_heap_hi(mem)
                  = align(Max(required(last'.size), chunksize))
          /\ (last'.grew = 0 \/ last'.gfail > 0) => mem_heap_hi(mem') = mem_heap_hi(mem)]_vars
\* scenario D: with a released block in the free list, a request larger than
\* the chunk size was served by one extension of the request's size
C16_Witness ==
  /\ last.op = "malloc" /\ last.size = 1100 /\ last.grew = 1 /\ last.ret # NULL
  /\ \E q \in returned \ Live : payload_to_block(q) \in FreeBlocks
  /\ block_size(mem, payload_to_block(last.ret)) = required(1100)
  /\ Granted(mem) = MINBLOCKSIZE + chunksize + required(1100)

\* two blocks met one after the other on the walk of memory m from pro to epi
\* are both free
AdjacentFreeIn(m, pro, epi) ==
  LET w == Walk(m, pro, epi, Len(m))
  IN  \E i \in 1..(Len(w) - 1) :
        /\ w[i] # FAIL /\ w[i + 1] # FAIL
        /\ block_allocated(m, w[i]) = 0 /\ block_allocated(m, w[i + 1]) = 0
\* the heap right after the mm_extend_heap call of mm_malloc(size): the
\* search before it (lines 145-147) only reads
ExtendedFor(size) == mm_extend_heap(Heap, Max(required(size), chunksize))

\* C17: immediately after every successful mm_extend_heap call, made from a
\* state the public operations reach, no two physically adjacent blocks are
\* both free, also when the block before the old Epilogue is free and too
\* small for the request; and the same after every mm_free.
C17_ExtendCoalesced ==
  [][/\ (Returned("malloc") /\ last'.grew = 1 /\ last'.gfail = 0)
          => \E e \in {ExtendedFor(last'.size)} : ~AdjacentFreeIn(e.mem, prologue, e.epi)
     /\ Returned("free") => ~AdjacentFreeIn(mem', prologue', epilogue')]_vars

\* the heap when mm_malloc(size) has chosen its block (lines 136-156), the
\* chosen block in ret
Searched(size) ==
  IF flist_first = NULL
  THEN mm_extend_heap(Heap, Max(required(size), chunksize))
  ELSE first_fit(Heap, flist_first, flist_first, required(size),
                 Max(required(size), chunksize), LoopFuel(mem, flist_first))
\* the blocks of the free list of heap value h
FreeListOf(h) ==
  Range(IF h.flist = NULL THEN << >> ELSE ListWalk(h.mem, h.flist, h.flist, Len(h.mem)))

\* the step has placed the request last'.size as line 163 decides: the tags
\* mm_break writes (lines 58-61) in a split, the header alone (line 170) when
\* the block is taken whole
PlacedAsDecided ==
  \E f \in {Searched(last'.size)} :
    LET req  == required(last'.size)
        curr == f.ret
        orig == block_size(f.mem, curr)
        rest == curr + req
    IN  /\ last'.ret = payload(curr)
        /\ IF orig - req >= 8 * MINBLOCKSIZE
           THEN /\ Rd(mem', curr) = req + 1
                /\ Rd(mem', rest - WORD_SIZE) = req + 1
                /\ Rd(mem', rest) = orig - req
                /\ Rd(mem', curr + orig - WORD_SIZE) = orig - req
                /\ Occurrences(FreeList', rest) = 1
                /\ Range(FreeList') = (FreeListOf(f) \ {curr}) \cup {rest}
           ELSE /\ Rd(mem', curr) = orig + 1
                /\ Range(FreeList') = FreeListOf(f) \ {curr}
        /\ epilogue' = f.epi
        /\ SumSizes(mem', Walk(mem', prologue, epilogue', Len(mem')))
             = SumSizes(f.mem, Walk(f.mem, prologue, f.epi, Len(f.mem)))

\* C18: mm_malloc splits the chosen free block when it exceeds the required
\* size by 8 * MINBLOCKSIZE or more (allocated part of exactly the required
\* size, the remainder right after it free and once in the free list), and
\* otherwise takes it whole, its size unchanged; the block sizes sum to the
\* same and the free list changes in no other way.
C18_Placement ==
  [][(Returned("malloc") /\ ~IntNegative(last'.size) /\ last'.ret # NULL)
       => PlacedAsDecided]_vars
\* a free block larger than required, but by less than 8 * MINBLOCKSIZE, was
\* taken whole while another free block stayed in the list
C18_Witness ==
  /\ last.op = "malloc" /\ last.grew = 0 /\ last.ret # NULL
  /\ block_size(mem, payload_to_block(last.ret)) >= required(last.size) + MINBLOCKSIZE
  /\ block_size(mem, payload_to_block(last.ret)) < required(last.size) + 8 * MINBLOCKSIZE
  /\ flist_first # NULL

\* ------------------------------------------------------------ mm_check_heap
\* mm_check_heap (lines 282-350) reads through pointers it has not validated.
\* The 8 bytes at a can be read when they lie in memlib's arena.  A read in
\* the first page (NULL, a boundary tag taken for a pointer) or at a negative
\* address ((block_t*) -1) traps; so does a read at an address as large as the
\* sum of two addresses of the arena (a free-list link taken for a size and
\* added to a block address), the arena lying in the upper half of what the
\* process has mapped.  What a read anywhere else outside the arena does is
\* not defined.  The outcomes: "ok" (returns 0), "exit" (prints
\* and calls exit(1)), "fault" (traps), "hang" (a loop does not end) and
\* "undefined" (any of these).
Unreadable(a) == a < HEAP_LO \/ a + WORD_SIZE > ArenaEnd
Trap(a) == IF a < PAGE \/ a >= HEAP_LO + HEAP_LO THEN "fault" ELSE "undefined"
\* The loops of mm_check_heap change nothing, so a loop that meets a block it
\* has met before never ends; seen holds the blocks met so far.

\* lines 310-318 for the list block curr, then line 319
RECURSIVE check_list(_, _, _, _)
check_neighbours(m, curr, first, seen) ==
  IF Unreadable(block_next(m, curr)) THEN Trap(block_next(m, curr))
  ELSE IF block_allocated(m, block_next(m, curr)) = 0 THEN "exit"
  ELSE IF Unreadable(curr - WORD_SIZE) THEN Trap(curr - WORD_SIZE)
  ELSE IF Unreadable(block_prev(m, curr)) THEN Trap(block_prev(m, curr))
  ELSE IF block_allocated(m, block_prev(m, curr)) = 0 THEN "exit"
  ELSE check_list(m, block_next_free(m, curr), first, seen \cup {curr})
\* lines 305-308: the block the prev-free link of curr names
check_prev_link(m, curr, first, seen) ==
  IF Unreadable(curr + 2 * WORD_SIZE) THEN Trap(curr + 2 * WORD_SIZE)
  ELSE IF Unreadable(block_prev_free(m, curr)) THEN Trap(block_prev_free(m, curr))
  ELSE IF block_allocated(m, block_prev_free(m, curr)) = 1 THEN "exit"
  ELSE check_neighbours(m, curr, first, seen)
\* the loop of lines 293-319, curr the block under test
check_list(m, curr, first, seen) ==
  IF curr = first THEN "ok"
  ELSE IF curr \in seen THEN "hang"
  ELSE IF Unreadable(curr) THEN Trap(curr)
  ELSE IF block_allocated(m, curr) = 1 THEN "exit"
  ELSE IF Unreadable(curr + WORD_SIZE) THEN Trap(curr + WORD_SIZE)
  ELSE IF Unreadable(block_next_free(m, curr)) THEN Trap(block_next_free(m, curr))
  ELSE IF block_allocated(m, block_next_free(m, curr)) = 1 THEN "exit"
  ELSE check_prev_link(m, curr, first, seen)

\* the loop of lines 331-343 from curr to the Epilogue; the printf of line 334
\* reads block_size(curr)
RECURSIVE check_walk(_, _, _, _)
check_walk(m, curr, epi, seen) ==
  IF curr = epi THEN "ok"
  ELSE IF curr \in seen THEN "hang"
  ELSE IF curr < mem_heap_lo \/ curr > mem_heap_hi(m)
  THEN (IF Unreadable(curr) THEN Trap(curr) ELSE "exit")
  ELSE IF Unreadable(curr) THEN Trap(curr)
  ELSE IF Unreadable(block_end_tag(m, curr)) THEN Trap(block_end_tag(m, curr))
  ELSE IF block_size(m, curr) # block_end_size(m, curr) THEN "exit"
  ELSE IF block_allocated(m, curr) # block_end_allocated(m, curr) THEN "exit"
  ELSE check_walk(m, block_next(m, curr), epi, seen \cup {curr})

\* lines 320-349; the printf of lines 324 and 328 reads block_size of the
\* pointer it reports, and line 345 is tested when curr is the Epilogue
check_bounds(m, pro, epi) ==
  IF mem_heap_lo # pro THEN (IF Unreadable(pro) THEN Trap(pro) ELSE "exit")
  ELSE IF mem_heap_hi(m) - (TAGS_SIZE - 1) # epi
  THEN (IF Unreadable(epi) THEN Trap(epi) ELSE "exit")
  ELSE IF check_walk(m, mem_heap_lo, epi, {}) # "ok"
  THEN check_walk(m, mem_heap_lo, epi, {})
  ELSE IF epi < mem_heap_lo \/ epi > mem_heap_hi(m)
  THEN (IF Unreadable(epi) THEN Trap(epi) ELSE "exit")
  ELSE "ok"

\* lines 283-319 once flist_first is known not to be NULL
check_anchor(m, first) ==
  IF Unreadable(first) THEN Trap(first)
  ELSE IF block_allocated(m, first) = 1 THEN "exit"
  ELSE IF Unreadable(first + WORD_SIZE) THEN Trap(first + WORD_SIZE)
  ELSE check_list(m, block_next_free(m, first), first, {})
mm_check_heap(m, first, pro, epi) ==
  IF first = NULL THEN "ok"
  ELSE IF check_anchor(m, first) # "ok" THEN check_anchor(m, first)
  ELSE check_bounds(m, pro, epi)
\* what the call can do: any outcome where its behaviour is not defined
CheckOutcomes(r) == IF r = "undefined" THEN {"ok", "exit", "fault", "hang"} ELSE {r}

\* what a pass of mm_check_heap is to establish: the free list holds free
\* blocks only, none of them (the anchor included) next to a free block, the
\* heap bounds are the Prologue and the Epilogue, and every block from the
\* Prologue to the Epilogue is in bounds with its header equal to its footer
Audited ==
  /\ \A b \in Range(FreeList) :
       /\ b # FAIL
       /\ block_allocated(mem, b) = 0
       /\ block_allocated(mem, block_next(mem, b)) = 1
       /\ block_allocated(mem, block_prev(mem, b)) = 1
  /\ mem_heap_lo = prologue
  /\ mem_heap_hi(mem) - (TAGS_SIZE - 1) = epilogue
  /\ \A b \in Range(PhysWalk) :
       /\ b # FAIL
       /\ InHeap(mem, b) /\ InHeap(mem, block_end_tag(mem, b))
       /\ block_size(mem, b) = block_end_size(mem, b)
       /\ block_allocated(mem, b) = block_end_allocated(mem, b)

\* C19: on any heap state, corrupted ones included, mm_check_heap returns 0
\* only if the free list holds free blocks only, no block of it (the anchor
\* included) has a free physical neighbour, the heap bounds are the Prologue
\* and the Epilogue and every block between them is in bounds with header
\* equal to footer, whether or not the free list is empty.
C19_AuditSound ==
  (status = "ok"
   /\ "ok" \in CheckOutcomes(mm_check_heap(mem, flist_first, prologue, epilogue)))
    => Audited

\* ------------------------------------------------------- the first-fit loop
\* the search of mm_malloc(size) from the anchor (lines 145-155) allowed fuel
\* tests of the loop condition
SearchedWithin(size, fuel) ==
  first_fit(Heap, flist_first, flist_first, required(size),
            Max(required(size), chunksize), fuel)

\* C20: every mm_malloc call in a state reached by valid use terminates: no
\* call (mm_realloc's inner mm_malloc included) leaves the loop unfinished,
\* and a search over a free list of n blocks tests its condition at most n + 1
\* times, once per block of the list and once more on the block the extension
\* returned, which ends the loop at once whether the extension succeeded or
\* failed.
C20_Terminates ==
  [][/\ status' # "hang"
     /\ (Returned("malloc") /\ flist_first # NULL /\ ~IntNegative(last'.size))
          => /\ FAIL \notin Range(FreeList)
             /\ SearchedWithin(last'.size, Len(FreeList) + 1).st # "hang"
             /\ SearchedWithin(last'.size, Len(FreeList) + 1).ret
                  = Searched(last'.size).ret]_vars
\* a request has walked past two free blocks too small for it, extended the
\* heap and been served from the new block
C20_Witness ==
  /\ last.op = "malloc" /\ last.grew = 1 /\ last.gfail = 0 /\ last.ret # NULL
  /\ Cardinality({b \in Range(FreeList) :
                    /\ b # FAIL /\ b < payload_to_block(last.ret)
                    /\ block_size(mem, b) < required(last.size)}) >= 2

====
